---- MODULE Spec2Model ----
(***************************************************************************)
(* Model of the Clappform API wrapper (src/src/clappform/__init__.py):     *)
(* the authentication check done before every request, the paginated,     *)
(* pooled reads (aggregate_dataframe / read_dataframe), the chunked write  *)
(* (write_dataframe) and the collection-item update.                       *)
(***************************************************************************)
EXTENDS Integers, Sequences, FiniteSets, TLC

(***************************************************************************)
(* Bounds of the model.                                                    *)
(***************************************************************************)
MaxPages == 3      \* largest pages_to_get of a read
MaxTime == 1       \* the clock runs from 0 to MaxTime
MaxWorkers == 2    \* largest max_workers of a read
MaxRows == 4       \* largest df.shape[0] of a write
MaxSize == 3       \* largest chunk size of a write
MaxItems == 2      \* longest list of items passed to delete

(***************************************************************************)
(* Constants of the program.                                               *)
(***************************************************************************)
MinLimit == 10     \* "limit": {"min": 10, ...}
MaxLimit == 500    \* "limit": {..., "max": 500}
DefaultLimit == 100 \* read_dataframe(..., limit: int = 100, ...)

NoToken == 0       \* "Authorization" not in self.session.headers
NoPage == -1       \* a read_data request without next_page
Main == 0          \* the caller's thread; the pool's tasks are 1, 2, ...

VARIABLES
    op,          \* the call the caller makes, with its arguments
    call,        \* the call (or generator): [state, phase, err]
    th,          \* thread -> its position inside _private_request
    authHeader,  \* self.session.headers["Authorization"], or NoToken
    auth,        \* self._auth: [access_token, expiry]
    issued,      \* number of tokens the server has issued
    now,         \* the clock
    reqs,        \* thread -> the HTTP requests it has sent, in order
    doc,         \* aggregate/read: the first response (document)
    nextIdx,     \* aggregate/read: the future whose result map() awaits
    yielded,     \* aggregate/read: offsets of the batches yielded
    completed,   \* aggregate/read: tasks in the order they completed
    chunk,       \* write_dataframe: index of the chunk being written
    item,        \* get/update/delete: the caller's item dict
    item_id,     \* get/update: the identifier taken out of the item
    result,      \* what the call returned to the caller
    stale        \* history: threads whose request left with a token older
                 \* than the last one the server issued

vars == <<op, call, th, authHeader, auth, issued, now, reqs, doc, nextIdx,
          yielded, completed, chunk, item, item_id, result, stale>>

(***************************************************************************)
(* Python helpers.                                                         *)
(***************************************************************************)
Min(a, b) == IF a <= b THEN a ELSE b

\* math.ceil(a / b) for a >= 0 and b > 0
Ceil(a, b) == IF a % b = 0 THEN a \div b ELSE (a \div b) + 1

\* len(range(start, stop, step)) for step > 0
RangeLen(start, stop, step) ==
    IF stop <= start THEN 0 ELSE Ceil(stop - start, step)

\* list(range(start, stop, step)) for step > 0
Range(start, stop, step) ==
    [k \in 1..RangeLen(start, stop, step) |-> start + (k - 1) * step]

\* d.pop(k) leaves d without k; d[k] = v adds or replaces k
DictPop(d, k) == [x \in DOMAIN d \ {k} |-> d[x]]
DictSet(d, k, v) == [x \in DOMAIN d \cup {k} |-> IF x = k THEN v ELSE d[x]]

(***************************************************************************)
(* Session state and _private_request / auth / _request.                   *)
(***************************************************************************)
\* values of a dict: tagged with their Python type
StrVal(v) == [type |-> "str", val |-> v]
IntVal(v) == [type |-> "int", val |-> v]
NoId == [type |-> "NoneType", val |-> ""]

NoAuth == [access_token |-> NoToken, expiry |-> 0]

\* dc.Auth.is_token_valid(): the token has not reached its expiry
IsTokenValid(a, t) == t < a.expiry

\* the check of the header without the check of the token
NeedsAuthHeaderOnly(hdr, a, t) == hdr = NoToken

\* _private_request, lines 141-144: does the request authenticate first?
NeedsAuth(hdr, a, t) ==
    IF hdr = NoToken THEN TRUE
    ELSE IF ~IsTokenValid(a, t) THEN TRUE
    ELSE FALSE

AuthRequest ==
    [method |-> "POST", path |-> "/auth", next_page |-> NoPage,
     body |-> [kind |-> "credentials"], id |-> NoId, auth |-> NoToken,
     status |-> "inflight"]

Request(method, path, next_page, body) ==
    [method |-> method, path |-> path, next_page |-> next_page,
     body |-> body, id |-> NoId, auth |-> NoToken, status |-> "inflight"]

\* thread t sends a request with the session's headers; the request it is
\* waiting for is answered
Sent(t, req) == [reqs EXCEPT ![t] = Append(@, [req EXCEPT !.auth = authHeader])]
Answer(t, status) == [reqs EXCEPT ![t][Len(reqs[t])].status = status]

NoRequest == Request("", "", NoPage, [kind |-> "none"])

\* a thread that is not inside _private_request
Idle ==
    [pc |-> "idle", req |-> NoRequest, no_header |-> FALSE,
     expired |-> FALSE, authed |-> 0]

\* a thread entering _private_request(method, path, ...)
Enter(req) ==
    [pc |-> "check", req |-> req, no_header |-> FALSE, expired |-> FALSE,
     authed |-> 0]

InRequest(t) ==
    th[t].pc \in {"check", "auth", "auth_wait", "auth_hdr", "send", "wait"}

Tasks == DOMAIN th \ {Main}

\* _private_request, lines 141-144: thread t checks the header and the
\* token and goes on to auth() or to _request()
Checked(t) ==
    [th EXCEPT ![t].pc = IF NeedsAuth(authHeader, auth, now)
                         THEN "auth" ELSE "send",
               ![t].no_header = (authHeader = NoToken),
               ![t].expired = ~IsTokenValid(auth, now)]

PrivateRequestCheck(t) ==
    /\ th[t].pc = "check"
    /\ th' = Checked(t)
    /\ UNCHANGED <<op, call, authHeader, auth, issued, now, reqs, doc,
                   nextIdx, yielded, completed, chunk, item, item_id, result, stale>>

\* auth, lines 155-159: POST /auth is sent
AuthSend(t) ==
    /\ th[t].pc = "auth"
    /\ reqs' = Sent(t, AuthRequest)
    /\ th' = [th EXCEPT ![t].pc = "auth_wait", ![t].authed = @ + 1]
    /\ UNCHANGED <<op, call, authHeader, auth, issued, now, doc, nextIdx,
                   yielded, completed, chunk, item, item_id, result, stale>>

\* auth, line 160: the exchange succeeded, self._auth = dc.Auth(...); the
\* token the server gives expires at the next tick of the clock
AuthOk(t) ==
    /\ th[t].pc = "auth_wait"
    /\ issued' = issued + 1
    /\ auth' = [access_token |-> issued + 1, expiry |-> now + 1]
    /\ th' = [th EXCEPT ![t].pc = "auth_hdr"]
    /\ reqs' = Answer(t, "ok")
    /\ UNCHANGED <<op, call, authHeader, now, doc, nextIdx, yielded,
                   completed, chunk, item, item_id, result, stale>>

\* auth, lines 161-163: the Authorization header is set from self._auth
AuthSetHeader(t) ==
    /\ th[t].pc = "auth_hdr"
    /\ authHeader' = auth.access_token
    /\ th' = [th EXCEPT ![t].pc = "send"]
    /\ UNCHANGED <<op, call, auth, issued, now, reqs, doc, nextIdx, yielded,
                   completed, chunk, item, item_id, result, stale>>

\* _request, line 125: the request leaves with the session's headers. The
\* history variable stale is set by the next-state relation that uses Send
Send(t) ==
    /\ th[t].pc = "send"
    /\ reqs' = Sent(t, th[t].req)
    /\ th' = [th EXCEPT ![t].pc = "wait"]
    /\ UNCHANGED <<op, call, authHeader, auth, issued, now, doc, nextIdx,
                   yielded, completed, chunk, item, item_id, result>>

\* time passes
Tick ==
    /\ now < MaxTime
    /\ now' = now + 1
    /\ UNCHANGED <<op, call, th, authHeader, auth, issued, reqs, doc,
                   nextIdx, yielded, completed, chunk, item, item_id, result, stale>>

\* the caller's call ends with an exception
Raised(e) == [state |-> "raised", phase |-> call.phase, err |-> e]

\* _request, lines 128-136, for POST /auth on the caller's thread: the
\* HTTPError leaves auth, _private_request and the operation
MainAuthFail ==
    /\ th[Main].pc = "auth_wait"
    /\ th' = [th EXCEPT ![Main].pc = "idle"]
    /\ call' = Raised("HTTPError")
    /\ reqs' = Answer(Main, "error")
    /\ UNCHANGED <<op, authHeader, auth, issued, now, doc, nextIdx,
                   yielded, completed, chunk, item, item_id, result, stale>>

\* the request of the caller's thread fails with an HTTP error
MainRequestFail ==
    /\ th[Main].pc = "wait"
    /\ th' = [th EXCEPT ![Main].pc = "idle"]
    /\ call' = Raised("HTTPError")
    /\ reqs' = Answer(Main, "error")
    /\ UNCHANGED <<op, authHeader, auth, issued, now, doc, nextIdx,
                   yielded, completed, chunk, item, item_id, result, stale>>

PrivateRequest(t) ==
    \/ PrivateRequestCheck(t)
    \/ AuthSend(t)
    \/ AuthOk(t)
    \/ AuthSetHeader(t)
    \/ Send(t)

\* the history of a step of thread t: a request that leaves while the header
\* still carries a token older than the last one issued (auth() has stored
\* the new token at line 160, the header is updated at lines 161-163)
SentStale(t) ==
    IF th[t].pc = "send" /\ authHeader < issued THEN stale \cup {t}
    ELSE stale

InitSession ==
    /\ authHeader = NoToken
    /\ auth = NoAuth
    /\ issued = 0
    /\ now = 0
    /\ reqs = [t \in {Main} |-> <<>>]
    /\ th = [t \in {Main} |-> Idle]
    /\ stale = {}

NoDoc == [received |-> FALSE, has_total |-> FALSE, total |-> 0,
          data_empty |-> TRUE]
NoItem == [kind |-> "none", v |-> <<>>]

(***************************************************************************)
(* aggregate_dataframe and read_dataframe.                                 *)
(***************************************************************************)
\* the options a caller may pass to aggregate_dataframe: limit inside and
\* outside the schema's bounds, app of the wrong type, limit missing
AggregateLimits == {MinLimit - 1, MinLimit, MaxLimit, MaxLimit + 1}
AggregateOptions ==
    {[has_limit |-> TRUE, limit |-> l, app |-> "str"] : l \in AggregateLimits}
    \cup {[has_limit |-> TRUE, limit |-> MinLimit, app |-> "int"]}
    \cup {[has_limit |-> FALSE, limit |-> 0, app |-> "str"]}


\* Validator(...).validate(options), lines 464-494: the schema holds
Validate(options) ==
    /\ options.app = "str"
    /\ options.has_limit
    /\ options.limit >= MinLimit
    /\ options.limit <= MaxLimit

\* the totals the server may report for a page size
TotalsFor(limit) ==
    {0} \cup {n \in {q * limit - r : q \in 1..MaxPages, r \in {0, 1}} :
                n > 0}

\* the first responses the server may give: with or without total, total
\* zero or positive, data empty or not (a positive total comes with data)
Docs(limit) ==
    {d \in {[received |-> TRUE, has_total |-> TRUE, total |-> n,
             data_empty |-> e] : n \in TotalsFor(limit), e \in BOOLEAN} :
        d.total > 0 => ~d.data_empty}
    \cup {[received |-> TRUE, has_total |-> FALSE, total |-> 0,
            data_empty |-> e] : e \in BOOLEAN}

\* the page size the server applies: the payload's limit
PageSize == IF op.options.has_limit THEN op.options.limit ELSE MinLimit

\* the empty result recognised by its data instead of its total
FirstPageErrorByData(d) ==
    IF ~d.has_total THEN "PaginationKeyError"
    ELSE IF d.data_empty THEN "PaginationTotalError"
    ELSE "none"

\* the total read with a default of 0 before the key is looked for
FirstPageErrorByDefault(d) ==
    IF (IF d.has_total THEN d.total ELSE 0) = 0 THEN "PaginationTotalError"
    ELSE IF ~d.has_total THEN "PaginationKeyError"
    ELSE "none"

\* lines 500-503 and 577-580: the checks of the first response
FirstPageError(d) ==
    IF ~d.has_total THEN "PaginationKeyError"
    ELSE IF d.total = 0 THEN "PaginationTotalError"
    ELSE "none"

\* pages_to_get rounded down
PagesToGetFloor(total, limit) == total \div limit

\* lines 506 and 583: pages_to_get
PagesToGet(total, limit) == Ceil(total, limit)

\* lines 515-519 and 592: the offsets handed to executor.map
Offsets(pages, limit) == Range(limit, pages * limit, limit)

\* the results taken as the futures complete (futures.as_completed)
MapNextCompleted(idx, comp, yld) ==
    LET cand == {n \in 1..Len(comp) :
                    \A m \in 1..Len(yld) :
                        yld[m] # th[comp[n]].req.next_page}
    IN  IF cand = {} THEN idx
        ELSE comp[CHOOSE n \in cand : \A m \in cand : n <= m]

\* executor.map, lines 511 and 588: the future whose result comes next
MapNext(idx, comp, yld) == idx

IsReadCall == op.name \in {"aggregate_dataframe", "read_dataframe"}

ReadRequest(next_page) ==
    Request("POST", "/dataframe/read_data", next_page,
            [kind |-> "read", options |-> op.options])

Running(state, phase) == [state |-> state, phase |-> phase, err |-> "none"]

\* the consumer pulls the first element: lines 464-499 and 562-576
ConsumerNextStart ==
    /\ op.name \in {"aggregate_dataframe", "read_dataframe"}
    /\ call.state = "created"
    /\ IF op.name = "read_dataframe" /\ op.query = "other"
       THEN /\ call' = Raised("TypeError")
            /\ th' = th
       ELSE /\ call' = Running("running", "first")
            /\ th' = [th EXCEPT ![Main] = Enter(ReadRequest(NoPage))]
    /\ UNCHANGED <<op, authHeader, auth, issued, now, reqs, doc, nextIdx,
                   yielded, completed, chunk, item, item_id, result, stale>>

\* the first response arrives and the next page is submitted at once
FirstPageEager ==
    /\ call.state = "running" /\ call.phase = "first"
    /\ th[Main].pc = "wait"
    /\ \E d \in Docs(PageSize) :
        /\ doc' = d
        /\ IF FirstPageError(d) # "none"
           THEN /\ call' = Raised(FirstPageError(d))
                /\ yielded' = yielded
                /\ th' = [th EXCEPT ![Main] = Idle]
                /\ reqs' = Answer(Main, "ok")
           ELSE /\ call' = Running("yielded", "first")
                /\ yielded' = Append(yielded, 0)
                /\ th' = [k \in 0..1 |->
                           IF k = Main THEN Idle
                           ELSE [Enter(ReadRequest(PageSize))
                                   EXCEPT !.pc = "pending"]]
                /\ reqs' = [k \in 0..1 |->
                             IF k = Main THEN Answer(Main, "ok")[Main]
                             ELSE <<>>]
    /\ UNCHANGED <<op, authHeader, auth, issued, now, nextIdx,
                   completed, chunk, item, item_id, result, stale>>

\* the first response arrives: lines 499-504 and 576-581
FirstPage ==
    /\ call.state = "running" /\ call.phase = "first"
    /\ th[Main].pc = "wait"
    /\ \E d \in Docs(PageSize) :
        /\ doc' = d
        /\ IF FirstPageError(d) # "none"
           THEN /\ call' = Raised(FirstPageError(d))
                /\ yielded' = yielded
           ELSE /\ call' = Running("yielded", "first")
                /\ yielded' = Append(yielded, 0)
    /\ th' = [th EXCEPT ![Main] = Idle]
    /\ reqs' = Answer(Main, "ok")
    /\ UNCHANGED <<op, authHeader, auth, issued, now, nextIdx,
                   completed, chunk, item, item_id, result, stale>>

\* the consumer pulls again after the first batch: lines 506-519 and
\* 583-592; executor.map submits every offset at once
ConsumerNextFanOut ==
    /\ call.state = "yielded" /\ call.phase = "first"
    /\ IF ~op.options.has_limit
       THEN /\ call' = Raised("KeyError")
            /\ UNCHANGED <<th, reqs, nextIdx>>
       ELSE LET pages == PagesToGet(doc.total, op.options.limit)
                offs == Offsets(pages, op.options.limit)
            IN  IF pages = 1
                THEN /\ call' = Running("returned", "first")
                     /\ UNCHANGED <<th, reqs, nextIdx>>
                ELSE /\ call' = Running("running", "pool")
                     /\ nextIdx' = 1
                     /\ reqs' = [k \in 0..Len(offs) |->
                                  IF k = Main THEN reqs[Main] ELSE <<>>]
                     /\ th' = [k \in 0..Len(offs) |->
                                IF k = Main THEN Idle
                                ELSE [Enter(ReadRequest(offs[k]))
                                        EXCEPT !.pc = "pending"]]
    /\ UNCHANGED <<op, authHeader, auth, issued, now, doc, yielded,
                   completed, chunk, item, item_id, result, stale>>

\* a pool thread takes the next work item off the queue and enters
\* _private_request with it: lines 512-514 and 141-144
TaskStart(k) ==
    /\ k \in Tasks
    /\ th[k].pc = "pending"
    /\ Cardinality({j \in Tasks : InRequest(j)}) < op.max_workers
    /\ \A j \in Tasks : j < k => th[j].pc # "pending"
    /\ th' = Checked(k)
    /\ UNCHANGED <<op, call, authHeader, auth, issued, now, reqs, doc,
                   nextIdx, yielded, completed, chunk, item, item_id, result, stale>>

\* a page request completes: the future holds the response
TaskOk(k) ==
    /\ k \in Tasks
    /\ th[k].pc = "wait"
    /\ th' = [th EXCEPT ![k].pc = "done"]
    /\ completed' = Append(completed, k)
    /\ reqs' = Answer(k, "ok")
    /\ UNCHANGED <<op, call, authHeader, auth, issued, now, doc,
                   nextIdx, yielded, chunk, item, item_id, result, stale>>

\* a worker that goes through _private_request again after a failure
TaskFailRetry(k) ==
    /\ k \in Tasks
    /\ th[k].pc \in {"wait", "auth_wait"}
    /\ th' = [th EXCEPT ![k].pc = "check"]
    /\ reqs' = Answer(k, "error")
    /\ UNCHANGED <<op, call, authHeader, auth, issued, now, doc, nextIdx,
                   yielded, completed, chunk, item, item_id, result, stale>>

\* a page request (or its authentication) fails: the future holds the
\* HTTPError
TaskFail(k) ==
    /\ k \in Tasks
    /\ th[k].pc \in {"wait", "auth_wait"}
    /\ th' = [th EXCEPT ![k].pc = "failed"]
    /\ completed' = Append(completed, k)
    /\ reqs' = Answer(k, "error")
    /\ UNCHANGED <<op, call, authHeader, auth, issued, now, doc,
                   nextIdx, yielded, chunk, item, item_id, result, stale>>

\* lines 521 and 594: the awaited result is there, its data is yielded
PoolYield ==
    /\ call.state = "running" /\ call.phase = "pool"
    /\ LET k == MapNext(nextIdx, completed, yielded) IN
        /\ k \in Tasks
        /\ th[k].pc = "done"
        /\ yielded' = Append(yielded, th[k].req.next_page)
    /\ nextIdx' = nextIdx + 1
    /\ call' = Running("yielded", "pool")
    /\ UNCHANGED <<op, th, authHeader, auth, issued, now, reqs, doc,
                   completed, chunk, item, item_id, result, stale>>

\* the failed page is passed over and the loop goes on
PoolRaiseSkip ==
    /\ call.state = "running" /\ call.phase = "pool"
    /\ nextIdx \in Tasks
    /\ th[nextIdx].pc = "failed"
    /\ nextIdx' = nextIdx + 1
    /\ UNCHANGED <<op, call, th, authHeader, auth, issued, now, reqs, doc,
                   yielded, completed, chunk, item, item_id, result, stale>>

\* the awaited future holds an error: map() cancels the futures that have
\* not started and the with block starts to shut the pool down
PoolRaise ==
    /\ call.state = "running" /\ call.phase = "pool"
    /\ LET k == MapNext(nextIdx, completed, yielded) IN
        /\ k \in Tasks
        /\ th[k].pc = "failed"
    /\ th' = [t \in DOMAIN th |->
                IF th[t].pc = "pending" THEN [th[t] EXCEPT !.pc = "cancelled"]
                ELSE th[t]]
    /\ call' = [state |-> "unwinding", phase |-> "pool", err |-> "HTTPError"]
    /\ UNCHANGED <<op, authHeader, auth, issued, now, reqs, doc, nextIdx,
                   yielded, completed, chunk, item, item_id, result, stale>>

\* shutdown(wait=True) has seen the last running worker finish: the error
\* reaches the consumer
PoolUnwound ==
    /\ call.state = "unwinding"
    /\ \A k \in Tasks : ~InRequest(k)
    /\ call' = Raised(call.err)
    /\ UNCHANGED <<op, th, authHeader, auth, issued, now, reqs, doc, nextIdx,
                   yielded, completed, chunk, item, item_id, result, stale>>

\* the generator is closed without waiting for the pool
ConsumerCloseNoWait ==
    /\ IsReadCall
    /\ call.state \in {"created", "yielded"}
    /\ th' = [t \in DOMAIN th |->
                IF th[t].pc = "pending" THEN [th[t] EXCEPT !.pc = "cancelled"]
                ELSE th[t]]
    /\ call' = Running("closed", call.phase)
    /\ UNCHANGED <<op, authHeader, auth, issued, now, reqs, doc, nextIdx,
                   yielded, completed, chunk, item, item_id, result, stale>>

\* the consumer abandons the read: the generator is closed where it is
\* suspended. Before the first pull and at the first yield (lines 504 and
\* 581) nothing else is open; at the yield inside the loop (lines 521 and
\* 594) map() cancels the futures that have not started and the with block
\* starts to shut the pool down
ConsumerClose ==
    /\ IsReadCall
    /\ call.state \in {"created", "yielded"}
    /\ th' = [t \in DOMAIN th |->
                IF th[t].pc = "pending" THEN [th[t] EXCEPT !.pc = "cancelled"]
                ELSE th[t]]
    /\ call' = IF call.phase = "pool" THEN Running("closing", "pool")
               ELSE Running("closed", call.phase)
    /\ UNCHANGED <<op, authHeader, auth, issued, now, reqs, doc, nextIdx,
                   yielded, completed, chunk, item, item_id, result, stale>>

\* shutdown(wait=True) has seen the last running worker finish: close()
\* returns to the consumer
PoolClosed ==
    /\ call.state = "closing"
    /\ \A k \in Tasks : ~InRequest(k)
    /\ call' = Running("closed", "pool")
    /\ UNCHANGED <<op, th, authHeader, auth, issued, now, reqs, doc, nextIdx,
                   yielded, completed, chunk, item, item_id, result, stale>>

\* the consumer pulls again after a batch of the pool
ConsumerNextPool ==
    /\ call.state = "yielded" /\ call.phase = "pool"
    /\ call' = Running("running", "pool")
    /\ UNCHANGED <<op, th, authHeader, auth, issued, now, reqs, doc, nextIdx,
                   yielded, completed, chunk, item, item_id, result, stale>>

\* every result was yielded: the with block ends, the generator returns
PoolReturn ==
    /\ call.state = "running" /\ call.phase = "pool"
    /\ nextIdx > Cardinality(Tasks)
    /\ \A k \in Tasks : ~InRequest(k)
    /\ call' = Running("returned", "pool")
    /\ UNCHANGED <<op, th, authHeader, auth, issued, now, reqs, doc, nextIdx,
                   yielded, completed, chunk, item, item_id, result, stale>>

\* the reads a caller may start: aggregate_dataframe with options that
\* meet the schema, read_dataframe with a query, a collection or neither
ReadCalls ==
    {[name |-> "aggregate_dataframe",
      options |-> [has_limit |-> TRUE, limit |-> l, app |-> "str"],
      query |-> "none", max_workers |-> MaxWorkers] :
        l \in {MinLimit, MaxLimit}}
    \cup
    {[name |-> "read_dataframe",
      options |-> [has_limit |-> TRUE, limit |-> 2, app |-> "str"],
      query |-> "Collection", max_workers |-> w] : w \in 1..MaxWorkers}
    \cup
    {[name |-> "read_dataframe",
      options |-> [has_limit |-> TRUE, limit |-> DefaultLimit, app |-> "str"],
      query |-> q, max_workers |-> 1] : q \in {"Query", "other"}}

\* aggregate_dataframe with options that violate the schema
InvalidCalls ==
    {[name |-> "aggregate_dataframe", options |-> o, query |-> "none",
      max_workers |-> 1] : o \in {x \in AggregateOptions : ~Validate(x)}}

InitRead ==
    /\ InitSession
    /\ op \in ReadCalls
    /\ call = Running("created", "start")
    /\ doc = NoDoc
    /\ nextIdx = 0
    /\ yielded = <<>>
    /\ completed = <<>>
    /\ chunk = 0
    /\ item = NoItem
    /\ item_id = NoId
    /\ result = NoItem

\* the steps of a read other than those inside _private_request
ReadStep ==
    \/ ConsumerNextStart
    \/ FirstPage
    \/ ConsumerNextFanOut
    \/ ConsumerNextPool
    \/ PoolYield
    \/ PoolRaise
    \/ PoolUnwound
    \/ PoolReturn
    \/ MainAuthFail
    \/ MainRequestFail
    \/ Tick
    \/ \E k \in Tasks : TaskStart(k) \/ TaskOk(k) \/ TaskFail(k)

NextRead ==
    \/ ReadStep
    \/ \E t \in DOMAIN th : PrivateRequest(t) /\ UNCHANGED stale

SpecRead == InitRead /\ [][NextRead]_vars

\* reads of a collection, with one worker and with several
CollectionCalls == {c \in ReadCalls : c.query = "Collection"}

InitCollection ==
    /\ InitSession
    /\ op \in CollectionCalls
    /\ call = Running("created", "start")
    /\ doc = NoDoc
    /\ nextIdx = 0
    /\ yielded = <<>>
    /\ completed = <<>>
    /\ chunk = 0
    /\ item = NoItem
    /\ item_id = NoId
    /\ result = NoItem

NextClose ==
    \/ NextRead
    \/ ConsumerClose
    \/ PoolClosed

\* the reads that the consumer may abandon at any yield
CloseCalls ==
    {c \in ReadCalls :
        \/ c.query = "Collection"
        \/ c.name = "aggregate_dataframe" /\ c.options.limit = MinLimit}

InitClose ==
    /\ InitSession
    /\ op \in CloseCalls
    /\ call = Running("created", "start")
    /\ doc = NoDoc
    /\ nextIdx = 0
    /\ yielded = <<>>
    /\ completed = <<>>
    /\ chunk = 0
    /\ item = NoItem
    /\ item_id = NoId
    /\ result = NoItem

SpecClose == InitClose /\ [][NextClose]_vars

\* a read whose history records the requests sent with a superseded token
NextRace ==
    \/ ReadStep
    \/ \E t \in DOMAIN th : PrivateRequest(t) /\ stale' = SentStale(t)

SpecRace == InitCollection /\ [][NextRace]_vars

InitValidate ==
    /\ InitSession
    /\ op \in InvalidCalls \cup {c \in ReadCalls : c.max_workers = 1}
    /\ call = Running("created", "start")
    /\ doc = NoDoc
    /\ nextIdx = 0
    /\ yielded = <<>>
    /\ completed = <<>>
    /\ chunk = 0
    /\ item = NoItem
    /\ item_id = NoId
    /\ result = NoItem

SpecValidate == InitValidate /\ [][NextRead]_vars

(***************************************************************************)
(* Properties of the reads.                                                *)
(***************************************************************************)
IsRead == op.name \in {"aggregate_dataframe", "read_dataframe"}

\* the read_data requests sent, and those of them that carry next_page
ReadDataReqs ==
    UNION {{<<t, i>> : i \in {j \in 1..Len(reqs[t]) :
                                reqs[t][j].path = "/dataframe/read_data"}} :
           t \in DOMAIN reqs}
PoolReqs == {x \in ReadDataReqs : reqs[x[1]][x[2]].next_page # NoPage}

\* the least number of pages of size limit that hold total records
LeastCover(total, limit) ==
    CHOOSE p \in 1..(MaxPages + 1) :
        /\ p * limit >= total
        /\ (p - 1) * limit < total

\* C1: a read whose first response has total > 0, once exhausted without a
\* failed request, has issued exactly ceil(total / limit) read_data
\* requests: one without next_page on the caller's thread and one per
\* offset limit, 2*limit, ..., (pages - 1)*limit on the pool, each once.
C1_PageRequests ==
    (IsRead /\ call.state = "returned") =>
        LET limit == op.options.limit
            p == LeastCover(doc.total, limit)
        IN  /\ doc.total > 0
            /\ Cardinality(ReadDataReqs) = p
            /\ Cardinality(ReadDataReqs \ PoolReqs) = 1
            /\ \A x \in ReadDataReqs \ PoolReqs : x[1] = Main
            /\ Cardinality(PoolReqs) = p - 1
            /\ \A x \in PoolReqs : x[1] # Main
            /\ {reqs[x[1]][x[2]].next_page : x \in PoolReqs}
                    = {k * limit : k \in 1..(p - 1)}

\* an exhausted read of three pages whose last page is not full
C1_Witness ==
    /\ IsRead /\ call.state = "returned"
    /\ Cardinality(ReadDataReqs) = 3
    /\ doc.total % op.options.limit # 0

\* task j completed before task i
CompletedBefore(j, i) ==
    \E a, b \in 1..Len(completed) :
        a < b /\ completed[a] = j /\ completed[b] = i

\* the batch of offset off was yielded; its place among the batches
WasYielded(off) == \E n \in 1..Len(yielded) : yielded[n] = off
YieldPos(off) == CHOOSE n \in 1..Len(yielded) : yielded[n] = off

C3_TotalZero ==
    (IsRead /\ doc.received /\ doc.has_total /\ doc.total = 0) =>
        /\ call.state = "raised"
        /\ call.err = "PaginationTotalError"
        /\ yielded = <<>>
        /\ PoolReqs = {}
        /\ Tasks = {}

\* total == 0 came with data
C3_Witness ==
    /\ IsRead /\ doc.received /\ doc.has_total /\ doc.total = 0
    /\ ~doc.data_empty
    /\ call.state = "raised"

\* C4: a first response without total raises PaginationKeyError whatever
\* else it holds, before the total == 0 check; nothing is yielded and no
\* next_page request is sent.
C4_MissingTotal ==
    (IsRead /\ doc.received /\ ~doc.has_total) =>
        /\ call.state = "raised"
        /\ call.err = "PaginationKeyError"
        /\ yielded = <<>>
        /\ PoolReqs = {}
        /\ Tasks = {}

\* a response without total and without data
C4_Witness ==
    /\ IsRead /\ doc.received /\ ~doc.has_total /\ doc.data_empty
    /\ call.state = "raised"

\* C5: options of aggregate_dataframe that violate the schema make the
\* read fail before any request is sent, and no read_data request carries
\* a limit outside [10, 500].
C5_ValidatedBeforeRequest ==
    op.name = "aggregate_dataframe" =>
        /\ ~Validate(op.options) => \A t \in DOMAIN reqs : reqs[t] = <<>>
        /\ \A x \in ReadDataReqs :
            /\ reqs[x[1]][x[2]].body.options.has_limit
            /\ reqs[x[1]][x[2]].body.options.limit >= MinLimit
            /\ reqs[x[1]][x[2]].body.options.limit <= MaxLimit

NoYieldPastFailure ==
    \A k \in Tasks :
        th[k].pc = "failed" =>
            \A n \in 1..Len(yielded) : yielded[n] < th[k].req.next_page

\* the error of the pool has reached the consumer only with no worker of
\* the pool still running
RaisedWhenQuiet ==
    (call.state = "raised" /\ call.phase = "pool") =>
        \A k \in Tasks : ~InRequest(k)

ChunkStartsSkip(rows, size) == Range(0, rows, size + 1)

\* line 645: range(0, df.shape[0], size)
ChunkStarts(rows, size) == Range(0, rows, size)

\* line 645: df[i : i + size], the rows lo..hi-1
WriteRequest(i) ==
    Request("POST", "dataframe_path", NoPage,
            [kind |-> "rows", lo |-> i, hi |-> Min(i + op.size, op.rows)])

\* the call starts: lines 638-651, up to the first chunk's request
WriteStart ==
    /\ op.name = "write_dataframe"
    /\ call.state = "created"
    /\ LET starts == ChunkStarts(op.rows, op.size) IN
       IF Len(starts) = 0
       THEN /\ call' = Running("returned", "write")
            /\ UNCHANGED <<th, chunk>>
       ELSE /\ call' = Running("running", "write")
            /\ chunk' = 1
            /\ th' = [th EXCEPT ![Main] = Enter(WriteRequest(starts[1]))]
    /\ UNCHANGED <<op, authHeader, auth, issued, now, reqs, doc, nextIdx,
                   yielded, completed, item, item_id, result, stale>>

\* a chunk was written: the loop goes to the next chunk, lines 645-656
WriteOk ==
    /\ op.name = "write_dataframe"
    /\ th[Main].pc = "wait"
    /\ reqs' = Answer(Main, "ok")
    /\ LET starts == ChunkStarts(op.rows, op.size) IN
       IF chunk < Len(starts)
       THEN /\ chunk' = chunk + 1
            /\ th' = [th EXCEPT ![Main] = Enter(WriteRequest(starts[chunk + 1]))]
            /\ call' = call
       ELSE /\ chunk' = chunk
            /\ th' = [th EXCEPT ![Main] = Idle]
            /\ call' = Running("returned", "write")
    /\ UNCHANGED <<op, authHeader, auth, issued, now, doc, nextIdx,
                   yielded, completed, item, item_id, result, stale>>

\* the failed chunk is passed over and the loop goes on
WriteFailContinue ==
    /\ op.name = "write_dataframe"
    /\ th[Main].pc = "wait"
    /\ reqs' = Answer(Main, "error")
    /\ LET starts == ChunkStarts(op.rows, op.size) IN
       IF chunk < Len(starts)
       THEN /\ chunk' = chunk + 1
            /\ th' = [th EXCEPT ![Main] = Enter(WriteRequest(starts[chunk + 1]))]
            /\ call' = call
       ELSE /\ chunk' = chunk
            /\ th' = [th EXCEPT ![Main] = Idle]
            /\ call' = Running("returned", "write")
    /\ UNCHANGED <<op, authHeader, auth, issued, now, doc, nextIdx,
                   yielded, completed, item, item_id, result, stale>>

\* a chunk's request fails: the HTTPError leaves the loop and the call
WriteFail ==
    /\ op.name = "write_dataframe"
    /\ th[Main].pc = "wait"
    /\ reqs' = Answer(Main, "error")
    /\ th' = [th EXCEPT ![Main].pc = "idle"]
    /\ call' = Raised("HTTPError")
    /\ UNCHANGED <<op, authHeader, auth, issued, now, doc, nextIdx,
                   yielded, completed, chunk, item, item_id, result, stale>>

WriteCalls ==
    {[name |-> "write_dataframe", rows |-> n, size |-> z] :
        n \in 0..MaxRows, z \in 1..MaxSize}

InitWrite ==
    /\ InitSession
    /\ op \in WriteCalls
    /\ call = Running("created", "start")
    /\ doc = NoDoc
    /\ nextIdx = 0
    /\ yielded = <<>>
    /\ completed = <<>>
    /\ chunk = 0
    /\ item = NoItem
    /\ item_id = NoId
    /\ result = NoItem

NextWrite ==
    \/ WriteStart
    \/ WriteOk
    \/ WriteFail
    \/ MainAuthFail
    \/ Tick
    \/ PrivateRequest(Main) /\ UNCHANGED stale

SpecWrite == InitWrite /\ [][NextWrite]_vars

(***************************************************************************)
(* Properties of the write and of the authentication check.                *)
(***************************************************************************)
IsWriteReq(r) == r.path = "dataframe_path"
WriteReqs == SelectSeq(reqs[Main], IsWriteReq)

\* the least number of chunks of size rows that hold n rows
LeastChunks(n, size) ==
    CHOOSE p \in 0..n : p * size >= n /\ (p = 0 \/ (p - 1) * size < n)

\* C7: write_dataframe on N rows with chunk size S sends ceil(N / S) write
\* requests when none fails; request i carries rows i*S .. min((i+1)*S, N)-1,
\* in ascending order, every row exactly once, and a request is sent only
\* after the one before it has completed.
C7_ChunkedWrite ==
    op.name = "write_dataframe" =>
        LET w == WriteReqs IN
        /\ \A i \in 1..Len(w) :
            /\ w[i].body.lo = (i - 1) * op.size
            /\ w[i].body.hi = Min(i * op.size, op.rows)
            /\ w[i].body.lo < w[i].body.hi
            /\ i < Len(w) => w[i].status = "ok"
        /\ Cardinality({i \in 1..Len(w) : w[i].status = "inflight"}) <= 1
        /\ call.state = "returned" =>
            /\ Len(w) = LeastChunks(op.rows, op.size)
            /\ \A row \in 0..(op.rows - 1) :
                Cardinality({i \in 1..Len(w) :
                    w[i].body.lo <= row /\ row < w[i].body.hi}) = 1

\* a completed write whose last chunk is shorter than the others
C7_Witness ==
    /\ op.name = "write_dataframe" /\ call.state = "returned"
    /\ op.rows = 4 /\ op.size = 3
    /\ Len(WriteReqs) = 2

\* C8: when the request of a chunk fails the error leaves write_dataframe
\* at once: no later chunk is sent, the chunks before it were written and
\* stay written, and no request is sent to undo them.
C8_WriteFailureStops ==
    op.name = "write_dataframe" =>
        /\ \A i \in 1..Len(reqs[Main]) :
            /\ reqs[Main][i].method = "POST"
            /\ (IsWriteReq(reqs[Main][i]) /\ reqs[Main][i].status = "error") =>
                /\ i = Len(reqs[Main])
                /\ call.state = "raised"
                /\ call.err = "HTTPError"
                /\ reqs[Main][i].body.lo = (chunk - 1) * op.size
        /\ call.state = "raised" =>
            \A i \in 1..(Len(WriteReqs) - 1) : WriteReqs[i].status = "ok"

\* the second of three chunks failed
C8_Witness ==
    /\ op.name = "write_dataframe" /\ call.state = "raised"
    /\ op.rows > 2 * op.size
    /\ Len(WriteReqs) = 2
    /\ WriteReqs[1].status = "ok" /\ WriteReqs[2].status = "error"

\* C9: every request authenticates first when no token is held or the
\* token held is expired, with exactly one exchange whose token is stored
\* before the request is sent, and not at all when a valid token is held;
\* no request leaves without an Authorization header, and a failed
\* exchange ends the call with no request sent and no second exchange.
C9_AuthBeforeRequest ==
    /\ \A i \in 1..Len(reqs[Main]) :
        /\ reqs[Main][i].path # "/auth" =>
            /\ reqs[Main][i].auth # NoToken
            /\ reqs[Main][i].auth <= issued
        /\ (reqs[Main][i].path = "/auth" /\ reqs[Main][i].status = "error") =>
            /\ i = Len(reqs[Main])
            /\ call.state = "raised"
            /\ call.err = "HTTPError"
    /\ th[Main].pc \in {"send", "wait"} =>
        th[Main].authed =
            IF th[Main].no_header \/ th[Main].expired THEN 1 ELSE 0
    /\ (th[Main].pc = "send" /\ th[Main].authed = 1) =>
        /\ authHeader = issued
        /\ auth.access_token = issued
        /\ auth.expiry > 0
        /\ reqs[Main][Len(reqs[Main])].path = "/auth"
        /\ reqs[Main][Len(reqs[Main])].status = "ok"
    /\ (th[Main].pc = "wait" /\ th[Main].authed = 1) =>
        /\ reqs[Main][Len(reqs[Main])].auth = issued
        /\ reqs[Main][Len(reqs[Main]) - 1].path = "/auth"

\* two chunks written on the first token, the next one after the token
\* expired and a second exchange
C9_Witness ==
    /\ op.name = "write_dataframe"
    /\ Len(reqs[Main]) = 5
    /\ reqs[Main][2].auth = 1
    /\ reqs[Main][3].auth = 1 /\ IsWriteReq(reqs[Main][3])
    /\ reqs[Main][4].path = "/auth"
    /\ reqs[Main][5].auth = 2 /\ IsWriteReq(reqs[Main][5])

(***************************************************************************)
(* update, with _seperate_id_from_item.                                    *)
(***************************************************************************)
Keys == {"_id", "foo"}
IdValues == {StrVal("a"), StrVal("b"), IntVal("7")}

\* the dicts a caller may pass as item: with and without _id, _id a string
\* or not, with and without another field
Dicts ==
    {d \in UNION {[D -> IdValues \cup {StrVal("bar")}] : D \in SUBSET Keys} :
        /\ "_id" \in DOMAIN d => d["_id"] \in IdValues
        /\ "foo" \in DOMAIN d => d["foo"] = StrVal("bar")}

\* the records the server may answer with: _id echoed, changed or left out
RespDicts == {d \in Dicts : "_id" \in DOMAIN d => d["_id"].type = "str"}

Dict(d) == [kind |-> "dict", v |-> d]

\* the identifier read without being taken out of the item
SeperateIdFromItemKeep(original) ==
    IF "_id" \notin DOMAIN original
    THEN [err |-> "KeyError", item_id |-> NoId, original |-> original]
    ELSE IF original["_id"].type # "str"
    THEN [err |-> "TypeError", item_id |-> NoId, original |-> original]
    ELSE [err |-> "none", item_id |-> original["_id"], original |-> original]

\* _seperate_id_from_item, lines 176-185: the error raised (if any), the
\* identifier, and the dict as the call leaves it
SeperateIdFromItem(original) ==
    IF "_id" \notin DOMAIN original
    THEN [err |-> "KeyError", item_id |-> NoId, original |-> original]
    ELSE IF original["_id"].type # "str"
    THEN [err |-> "TypeError", item_id |-> NoId,
          original |-> DictPop(original, "_id")]
    ELSE [err |-> "none", item_id |-> original["_id"],
          original |-> DictPop(original, "_id")]

\* resource.one_item_path(item_id) with json={"data": item}
ItemRequest(method, id, data) ==
    [Request(method, "one_item_path", NoPage,
             [kind |-> "item", data |-> data]) EXCEPT !.id = id]

IsItemCall == op.resource = "Collection" /\ op.item.kind = "dict"

\* update, lines 347-351 and 362-366, up to the PUT request
UpdateStart ==
    /\ op.name = "update"
    /\ call.state = "created"
    /\ IF IsItemCall
       THEN LET sep == SeperateIdFromItem(item.v) IN
            /\ item' = Dict(sep.original)
            /\ IF sep.err # "none"
               THEN /\ call' = Raised(sep.err)
                    /\ UNCHANGED <<th, item_id>>
               ELSE /\ call' = Running("running", "update")
                    /\ item_id' = sep.item_id
                    /\ th' = [th EXCEPT ![Main] =
                            Enter(ItemRequest("PUT", sep.item_id,
                                              sep.original))]
       ELSE /\ call' = Running("running", "update")
            /\ th' = [th EXCEPT ![Main] =
                    Enter(Request("PUT", "one_path", NoPage,
                                  [kind |-> "resource"]))]
            /\ UNCHANGED <<item, item_id>>
    /\ UNCHANGED <<op, authHeader, auth, issued, now, reqs, doc, nextIdx,
                   yielded, completed, chunk, result, stale>>

\* update, lines 352-353 and 367: the PUT was answered
UpdateOk ==
    /\ op.name = "update"
    /\ th[Main].pc = "wait"
    /\ reqs' = Answer(Main, "ok")
    /\ th' = [th EXCEPT ![Main] = Idle]
    /\ call' = Running("returned", "update")
    /\ IF IsItemCall
       THEN \E data \in RespDicts :
            /\ doc' = [received |-> TRUE, data |-> data]
            /\ result' = Dict(DictSet(data, "_id", item_id))
       ELSE /\ doc' = [received |-> TRUE, data |-> <<>>]
            /\ result' = [kind |-> "resource", v |-> <<>>]
    /\ UNCHANGED <<op, authHeader, auth, issued, now, nextIdx, yielded,
                   completed, chunk, item, item_id, stale>>

\* a list of item dicts, and an item that is neither a list nor a dict
Lists == UNION {[1..n -> Dicts] : n \in 0..MaxItems}
List(l) == [kind |-> "list", items |-> l]
Other == [kind |-> "other", v |-> <<>>]

\* get that takes the identifier out of a copy of the item
GetStartCopy ==
    /\ op.name = "get"
    /\ call.state = "created"
    /\ IF IsItemCall
       THEN LET sep == SeperateIdFromItem(item.v) IN
            /\ UNCHANGED item
            /\ IF sep.err # "none"
               THEN /\ call' = Raised(sep.err)
                    /\ UNCHANGED <<th, item_id>>
               ELSE /\ call' = Running("running", "get")
                    /\ item_id' = sep.item_id
                    /\ th' = [th EXCEPT ![Main] =
                            Enter([Request("GET", "one_item_path", NoPage,
                                           [kind |-> "none"])
                                   EXCEPT !.id = sep.item_id])]
       ELSE /\ call' = Running("running", "get")
            /\ th' = [th EXCEPT ![Main] =
                    Enter(Request("GET", "one_or_all_path", NoPage,
                                  [kind |-> "none"]))]
            /\ UNCHANGED <<item, item_id>>
    /\ UNCHANGED <<op, authHeader, auth, issued, now, reqs, doc, nextIdx,
                   yielded, completed, chunk, result, stale>>

\* get, lines 232-236, up to the GET request
GetStart ==
    /\ op.name = "get"
    /\ call.state = "created"
    /\ IF IsItemCall
       THEN LET sep == SeperateIdFromItem(item.v) IN
            /\ item' = Dict(sep.original)
            /\ IF sep.err # "none"
               THEN /\ call' = Raised(sep.err)
                    /\ UNCHANGED <<th, item_id>>
               ELSE /\ call' = Running("running", "get")
                    /\ item_id' = sep.item_id
                    /\ th' = [th EXCEPT ![Main] =
                            Enter([Request("GET", "one_item_path", NoPage,
                                           [kind |-> "none"])
                                   EXCEPT !.id = sep.item_id])]
       ELSE /\ call' = Running("running", "get")
            /\ th' = [th EXCEPT ![Main] =
                    Enter(Request("GET", "one_or_all_path", NoPage,
                                  [kind |-> "none"]))]
            /\ UNCHANGED <<item, item_id>>
    /\ UNCHANGED <<op, authHeader, auth, issued, now, reqs, doc, nextIdx,
                   yielded, completed, chunk, result, stale>>

\* get, lines 237-238 and 240-249: the GET was answered. For an item the
\* identifier is put back into the record; for a resource the data is a
\* list, a dict, or something else (TypeError)
GetOk ==
    /\ op.name = "get"
    /\ th[Main].pc = "wait"
    /\ reqs' = Answer(Main, "ok")
    /\ th' = [th EXCEPT ![Main] = Idle]
    /\ IF IsItemCall
       THEN \E data \in RespDicts :
            /\ doc' = [received |-> TRUE, data |-> data]
            /\ result' = Dict(DictSet(data, "_id", item_id))
            /\ call' = Running("returned", "get")
       ELSE \E kind \in {"list", "dict", "other"} :
            /\ doc' = [received |-> TRUE, data |-> <<>>]
            /\ IF kind = "other"
               THEN /\ call' = Raised("TypeError")
                    /\ UNCHANGED result
               ELSE /\ call' = Running("returned", "get")
                    /\ result' = [kind |-> IF kind = "list" THEN "resources"
                                           ELSE "resource", v |-> <<>>]
    /\ UNCHANGED <<op, authHeader, auth, issued, now, nextIdx, yielded,
                   completed, chunk, item, item_id, stale>>

\* delete, line 409: the list comprehension from element i on. It stops at
\* the first element whose identifier cannot be taken out
RECURSIVE SeperateIdsFrom(_, _, _)
SeperateIdsFrom(items, i, oids) ==
    IF i > Len(items)
    THEN [err |-> "none", oids |-> oids, items |-> items]
    ELSE LET sep == SeperateIdFromItem(items[i])
             left == [items EXCEPT ![i] = sep.original]
         IN  IF sep.err # "none"
             THEN [err |-> sep.err, oids |-> oids, items |-> left]
             ELSE SeperateIdsFrom(left, i + 1, Append(oids, sep.item_id))

\* an item of any other type taken for an empty list of identifiers
DeleteOidsLenient(it) ==
    IF it.kind = "list"
    THEN LET r == SeperateIdsFrom(it.items, 1, <<>>) IN
         [err |-> r.err, oids |-> r.oids, item |-> List(r.items)]
    ELSE IF it.kind = "dict"
    THEN LET sep == SeperateIdFromItem(it.v) IN
         [err |-> sep.err,
          oids |-> IF sep.err = "none" THEN <<sep.item_id>> ELSE <<>>,
          item |-> Dict(sep.original)]
    ELSE [err |-> "none", oids |-> <<>>, item |-> it]

\* delete, lines 406-411 and 417-420: the error raised (if any), the
\* identifiers in oids, and the item as the call leaves it
DeleteOids(it) ==
    IF it.kind = "list"
    THEN LET r == SeperateIdsFrom(it.items, 1, <<>>) IN
         [err |-> r.err, oids |-> r.oids, item |-> List(r.items)]
    ELSE IF it.kind = "dict"
    THEN LET sep == SeperateIdFromItem(it.v) IN
         [err |-> sep.err,
          oids |-> IF sep.err = "none" THEN <<sep.item_id>> ELSE <<>>,
          item |-> Dict(sep.original)]
    ELSE [err |-> "TypeError", oids |-> <<>>, item |-> it]

\* the body that carries only the first identifier
DeleteBodyFirst(oids) ==
    [kind |-> "oids", oids |-> IF oids = <<>> THEN <<>> ELSE <<oids[1]>>]

\* delete, line 414: json={"oids": oids}
DeleteBody(oids) == [kind |-> "oids", oids |-> oids]

\* delete, lines 405-415 and 422, up to the DELETE request
DeleteStart ==
    /\ op.name = "delete"
    /\ call.state = "created"
    /\ IF op.resource = "Collection" /\ item.kind # "none"
       THEN LET r == DeleteOids(item) IN
            /\ item' = r.item
            /\ IF r.err # "none"
               THEN /\ call' = Raised(r.err)
                    /\ UNCHANGED th
               ELSE /\ call' = Running("running", "delete")
                    /\ th' = [th EXCEPT ![Main] =
                            Enter(Request("DELETE", "create_item_path",
                                          NoPage, DeleteBody(r.oids)))]
       ELSE /\ call' = Running("running", "delete")
            /\ th' = [th EXCEPT ![Main] =
                    Enter(Request("DELETE", "one_path", NoPage,
                                  [kind |-> "none"]))]
            /\ UNCHANGED item
    /\ UNCHANGED <<op, authHeader, auth, issued, now, reqs, doc, nextIdx,
                   yielded, completed, chunk, item_id, result, stale>>

\* delete, lines 416 and 423: the DELETE was answered
DeleteOk ==
    /\ op.name = "delete"
    /\ th[Main].pc = "wait"
    /\ reqs' = Answer(Main, "ok")
    /\ th' = [th EXCEPT ![Main] = Idle]
    /\ call' = Running("returned", "delete")
    /\ doc' = [received |-> TRUE, data |-> <<>>]
    /\ result' = [kind |-> "ApiResponse", v |-> <<>>]
    /\ UNCHANGED <<op, authHeader, auth, issued, now, nextIdx, yielded,
                   completed, chunk, item, item_id, stale>>

\* the values of data_export: the two booleans and one that is no boolean
BoolVal(v) == [type |-> "bool", val |-> v]
DataExports == {BoolVal("True"), BoolVal("False"), IntVal("1")}

\* the bundles passed to import_app: a config and one more entry
Apps ==
    {[config |-> [deployable |-> b], name |-> StrVal("app")] :
        b \in BOOLEAN}

\* every bundle taken for deployable
DeployableAlways(config) == TRUE

\* import_app, line 774: config["deployable"]
Deployable(config) == config["deployable"]

\* import_app, lines 773-783, up to the POST request; item holds the
\* caller's bundle
ImportStart ==
    /\ op.name = "import_app"
    /\ call.state = "created"
    /\ LET config == item.v["config"]
           app == DictPop(item.v, "config")
       IN  /\ item' = Dict(app)
           /\ IF ~Deployable(config)
              THEN /\ call' = Raised("Exception")
                   /\ UNCHANGED th
              ELSE IF op.data_export.type # "bool"
              THEN /\ call' = Raised("TypeError")
                   /\ UNCHANGED th
              ELSE /\ call' = Running("running", "import_app")
                   /\ th' = [th EXCEPT ![Main] =
                           Enter(Request("POST", "/transfer/app", NoPage,
                               [kind |-> "app",
                                data |-> DictSet(app, "delete_mongo_data",
                                                 op.data_export)]))]
    /\ UNCHANGED <<op, authHeader, auth, issued, now, reqs, doc, nextIdx,
                   yielded, completed, chunk, item_id, result, stale>>

\* import_app, line 784: the POST was answered
ImportOk ==
    /\ op.name = "import_app"
    /\ th[Main].pc = "wait"
    /\ reqs' = Answer(Main, "ok")
    /\ th' = [th EXCEPT ![Main] = Idle]
    /\ call' = Running("returned", "import_app")
    /\ doc' = [received |-> TRUE, data |-> <<>>]
    /\ result' = [kind |-> "ApiResponse", v |-> <<>>]
    /\ UNCHANGED <<op, authHeader, auth, issued, now, nextIdx, yielded,
                   completed, chunk, item, item_id, stale>>

CrudCalls ==
    {[name |-> "update", resource |-> "Collection", item |-> Dict(d)] :
        d \in Dicts}
    \cup {[name |-> "update", resource |-> r, item |-> NoItem] :
            r \in {"Collection", "App"}}

GetCalls ==
    {[name |-> "get", resource |-> "Collection", item |-> Dict(d)] :
        d \in Dicts}
    \cup {[name |-> "get", resource |-> r, item |-> NoItem] :
            r \in {"Collection", "App"}}

DeleteCalls ==
    {[name |-> "delete", resource |-> "Collection", item |-> i] :
        i \in {Dict(d) : d \in Dicts} \cup {List(l) : l \in Lists}
              \cup {Other}}
    \cup {[name |-> "delete", resource |-> r, item |-> NoItem] :
            r \in {"Collection", "App"}}

ImportCalls ==
    {[name |-> "import_app", resource |-> "none", item |-> Dict(a),
      data_export |-> e] : a \in Apps, e \in DataExports}

InitCrud ==
    /\ InitSession
    /\ op \in CrudCalls \cup GetCalls \cup DeleteCalls \cup ImportCalls
    /\ call = Running("created", "start")
    /\ doc = NoDoc
    /\ nextIdx = 0
    /\ yielded = <<>>
    /\ completed = <<>>
    /\ chunk = 0
    /\ item = op.item
    /\ item_id = NoId
    /\ result = NoItem

NextCrud ==
    \/ UpdateStart
    \/ UpdateOk
    \/ GetStart
    \/ GetOk
    \/ DeleteStart
    \/ DeleteOk
    \/ ImportStart
    \/ ImportOk
    \/ MainRequestFail
    \/ MainAuthFail
    \/ Tick
    \/ PrivateRequest(Main) /\ UNCHANGED stale

SpecCrud == InitCrud /\ [][NextCrud]_vars

(***************************************************************************)
(* Properties of update.                                                   *)
(***************************************************************************)
\* the call is an update of a collection item that holds a string _id
IsItemUpdate ==
    /\ op.name = "update" /\ op.resource = "Collection"
    /\ op.item.kind = "dict"
    /\ "_id" \in DOMAIN op.item.v
    /\ op.item.v["_id"].type = "str"

PutReqs == {i \in 1..Len(reqs[Main]) : reqs[Main][i].method = "PUT"}

\* C10: update on a collection item with a string _id sends one PUT to the
\* item's path whose body does not hold _id, and the record returned
\* holds _id equal to the identifier passed in, echoed by the server or
\* not.
C10_UpdateItem ==
    IsItemUpdate =>
        /\ Cardinality(PutReqs) <= 1
        /\ \A i \in PutReqs :
            /\ reqs[Main][i].path = "one_item_path"
            /\ reqs[Main][i].id = op.item.v["_id"]
            /\ "_id" \notin DOMAIN reqs[Main][i].body.data
            /\ reqs[Main][i].body.data = DictPop(op.item.v, "_id")
        /\ call.state = "returned" =>
            /\ Cardinality(PutReqs) = 1
            /\ result.kind = "dict"
            /\ "_id" \in DOMAIN result.v
            /\ result.v["_id"] = op.item.v["_id"]
            /\ \A k \in DOMAIN doc.data \ {"_id"} : result.v[k] = doc.data[k]

\* the server left _id out of its answer
C10_Witness ==
    /\ IsItemUpdate /\ call.state = "returned"
    /\ "foo" \in DOMAIN op.item.v
    /\ "_id" \notin DOMAIN doc.data

\* the server answered with another _id
C10_WitnessEcho ==
    /\ IsItemUpdate /\ call.state = "returned"
    /\ "_id" \in DOMAIN doc.data
    /\ doc.data["_id"] # op.item.v["_id"]

(***************************************************************************)
(* Properties of the token refresh inside the pool.                        *)
(***************************************************************************)
\* the page requests of pool thread k (its other requests are POST /auth)
PageReqsOf(k) == {i \in 1..Len(reqs[k]) : reqs[k][i].path # "/auth"}

\* C14: no lock orders the token check, the refresh and the sending of the
\* pool workers, so a worker may send with a token older than the last one
\* issued. Whatever token a worker sends with, it sends its page request
\* once: a failed request is the last thing the worker does (no second
\* check, no retry), its batch is never yielded, the read never ends
\* normally, and what the consumer gets is the HTTP error of the future
\* it awaits.
C14_StaleNotRetried ==
    /\ \A k \in Tasks :
        /\ Cardinality(PageReqsOf(k)) <= 1
        /\ Len(reqs[k]) <= 2
        /\ th[k].pc = "failed" =>
            /\ reqs[k] # <<>>
            /\ reqs[k][Len(reqs[k])].status = "error"
            /\ ~WasYielded(th[k].req.next_page)
            /\ call.state # "returned"
        /\ k \in stale =>
            /\ PageReqsOf(k) # {}
            /\ \A i \in PageReqsOf(k) :
                reqs[k][i].auth # NoToken /\ reqs[k][i].auth < issued
    /\ (call.state = "raised" /\ call.phase = "pool") =>
        /\ call.err = "HTTPError"
        /\ nextIdx \in Tasks
        /\ th[nextIdx].pc = "failed"

\* two workers of one read: the first sent its page request with the old
\* token after the second had obtained a new one, the request failed, and
\* its HTTP error is what the consumer got; the second sent with the new
\* token
C14_Witness ==
    \E j, k \in Tasks :
        /\ j # k
        /\ j \in stale /\ th[j].pc = "failed"
        /\ j = nextIdx
        /\ call.state = "raised" /\ call.err = "HTTPError"
        /\ k \notin stale
        /\ PageReqsOf(k) # {}
        /\ \A i \in PageReqsOf(k) :
            /\ reqs[k][i].auth = issued
            /\ \A n \in PageReqsOf(j) : reqs[j][n].auth < reqs[k][i].auth

\* the other interleaving: the token expired, one worker refreshed it and
\* every worker sent its page request with the new token
C14_WitnessRefreshed ==
    /\ stale = {}
    /\ Cardinality(Tasks) >= 2
    /\ issued >= 2
    /\ \A k \in Tasks :
        /\ PageReqsOf(k) # {}
        /\ \A i \in PageReqsOf(k) : reqs[k][i].auth = issued
    /\ \E k \in Tasks : Len(reqs[k]) = 1

(***************************************************************************)
(* Properties of a read that is abandoned.                                 *)
(***************************************************************************)
\* close() has returned from a read with a pool only with no worker of the
\* pool inside a request and no request of the pool unanswered
ClosedWhenQuiet ==
    (call.state = "closed" /\ call.phase = "pool") =>
        /\ \A k \in Tasks : ~InRequest(k)
        /\ \A k \in Tasks : \A i \in 1..Len(reqs[k]) :
            reqs[k][i].status # "inflight"

\* C15: when the consumer closes a read whose pool has been started, a
\* worker that is inside a request goes on until its request is answered
\* (it is never cancelled or put back), no queued page is started any
\* more, and close() returns only when no worker of the pool is inside a
\* request; after that nothing of the read changes.
C15_CloseWaits ==
    [][/\ \A k \in Tasks :
            InRequest(k) =>
                th'[k].pc \in {"check", "auth", "auth_wait", "auth_hdr",
                               "send", "wait", "done", "failed"}
       /\ call.state = "closing" =>
            /\ call'.state \in {"closing", "closed"}
            /\ \A k \in Tasks : ~InRequest(k) => th'[k] = th[k]
            /\ call'.state = "closed" => \A k \in Tasks : ~InRequest(k)
       /\ call.state = "closed" =>
            /\ call' = call /\ th' = th /\ reqs' = reqs
            /\ yielded' = yielded
       /\ ClosedWhenQuiet']_vars

\* the consumer has closed the read after a batch of the pool and close()
\* is waiting: a page request is in flight
C15_Witness ==
    /\ IsRead /\ call.state = "closing"
    /\ Len(yielded) >= 2
    /\ \E k \in Tasks :
        /\ th[k].pc = "wait"
        /\ reqs[k][Len(reqs[k])].status = "inflight"

\* close() has returned: a page of the pool was answered and never yielded
C15_WitnessClosed ==
    /\ IsRead /\ call.state = "closed" /\ call.phase = "pool"
    /\ \E k \in Tasks :
        /\ th[k].pc = "done"
        /\ ~WasYielded(th[k].req.next_page)

\* close() has returned: a queued page was cancelled and never requested
C15_WitnessCancelled ==
    /\ IsRead /\ call.state = "closed" /\ call.phase = "pool"
    /\ \E k \in Tasks : th[k].pc = "cancelled" /\ reqs[k] = <<>>

\* C16: a read sends nothing before the consumer pulls the first element;
\* the first batch yielded is that of the request without next_page, sent
\* on the caller's thread and answered; no page is queued and no request
\* with next_page is sent before the first batch was yielded and the
\* consumer pulled again; a consumer that stops after the first batch has
\* caused exactly one read_data request.
C16_LazyPageZero ==
    IsRead =>
        /\ (call.state = "created"
                \/ (call.state = "closed" /\ call.phase = "start")) =>
            /\ \A t \in DOMAIN reqs : reqs[t] = <<>>
            /\ th[Main].pc = "idle"
            /\ yielded = <<>>
        /\ yielded # <<>> =>
            /\ yielded[1] = 0
            /\ \E i \in 1..Len(reqs[Main]) :
                /\ reqs[Main][i].path = "/dataframe/read_data"
                /\ reqs[Main][i].next_page = NoPage
                /\ reqs[Main][i].status = "ok"
        /\ call.phase \in {"start", "first"} =>
            /\ Tasks = {}
            /\ PoolReqs = {}
            /\ Cardinality(ReadDataReqs) <= 1
        /\ (Tasks # {} \/ PoolReqs # {}) =>
            /\ call.phase = "pool"
            /\ Len(yielded) >= 1
        /\ (call.phase = "first" /\ call.state \in {"yielded", "closed"}) =>
            /\ Len(yielded) = 1
            /\ Cardinality(ReadDataReqs) = 1
        /\ \A x \in PoolReqs : x[1] # Main

\* the consumer stopped after the first batch of a read of several pages
C16_Witness ==
    /\ IsRead /\ call.state = "closed" /\ call.phase = "first"
    /\ yielded = <<0>>
    /\ doc.has_total /\ doc.total > op.options.limit
    /\ Cardinality(ReadDataReqs) = 1

(***************************************************************************)
(* Properties of get, delete and import_app.                               *)
(***************************************************************************)
\* the requests of the caller's thread other than POST /auth
OpReqs == {i \in 1..Len(reqs[Main]) : reqs[Main][i].path # "/auth"}

\* a dict that holds a string _id
HasStrId(d) == "_id" \in DOMAIN d /\ d["_id"].type = "str"

\* the call is a delete of collection items that all hold a string _id
IsItemDelete ==
    /\ op.name = "delete" /\ op.resource = "Collection"
    /\ \/ op.item.kind = "dict" /\ HasStrId(op.item.v)
       \/ /\ op.item.kind = "list"
          /\ \A i \in 1..Len(op.item.items) : HasStrId(op.item.items[i])

\* the identifiers of the items passed in, in the order of the list
PassedIds ==
    IF op.item.kind = "dict" THEN <<op.item.v["_id"]>>
    ELSE [i \in 1..Len(op.item.items) |-> op.item.items[i]["_id"]]

\* C11: delete on a Collection with a list of N items that each hold a
\* string _id sends one DELETE, to the path of the items, whose body
\* carries exactly the N identifiers in the order of the list; a single
\* dict sends one DELETE carrying its identifier; there is no request per
\* item, and the call ends with no identifier error.
C11_DeleteOnce ==
    IsItemDelete =>
        /\ Cardinality(OpReqs) <= 1
        /\ \A i \in OpReqs :
            /\ reqs[Main][i].method = "DELETE"
            /\ reqs[Main][i].path = "create_item_path"
            /\ reqs[Main][i].body.kind = "oids"
            /\ reqs[Main][i].body.oids = PassedIds
        /\ call.state = "returned" => Cardinality(OpReqs) = 1
        /\ call.state = "raised" => call.err = "HTTPError"

\* a list of two items with different identifiers was deleted
C11_Witness ==
    /\ IsItemDelete /\ op.item.kind = "list"
    /\ Len(op.item.items) = 2
    /\ op.item.items[1]["_id"] # op.item.items[2]["_id"]
    /\ call.state = "returned"
    /\ reqs[Main][Len(reqs[Main])].body.oids =
        <<op.item.items[1]["_id"], op.item.items[2]["_id"]>>

\* the identifier error a dict leads to
IdError(d) ==
    IF "_id" \notin DOMAIN d THEN "KeyError"
    ELSE IF d["_id"].type # "str" THEN "TypeError"
    ELSE "none"

\* the first element of a list whose identifier cannot be taken out, or 0
FirstBad(items) ==
    LET bad == {i \in 1..Len(items) : IdError(items[i]) # "none"} IN
    IF bad = {} THEN 0 ELSE CHOOSE i \in bad : \A j \in bad : i <= j

\* the identifier error the arguments of the call lead to
ExpectedIdError ==
    IF op.name \in {"get", "update"}
    THEN IF op.resource = "Collection" /\ op.item.kind = "dict"
         THEN IdError(op.item.v) ELSE "none"
    ELSE IF op.name = "delete" /\ op.resource = "Collection"
    THEN IF op.item.kind = "dict" THEN IdError(op.item.v)
         ELSE IF op.item.kind = "list"
         THEN IF FirstBad(op.item.items) = 0 THEN "none"
              ELSE IdError(op.item.items[FirstBad(op.item.items)])
         ELSE IF op.item.kind = "other" THEN "TypeError"
         ELSE "none"
    ELSE "none"

\* C12: in get, update and delete on a collection item, an item without
\* _id ends the call with the missing-key error, an item whose _id is not a
\* string with the wrong-type error, and in delete an item that is neither
\* a list nor a dict with the wrong-type error; the caller's thread never
\* enters _private_request, so no request is sent, neither POST /auth nor
\* the operation, wherever the offending item stands in a delete list.
C12_IdentifierErrors ==
    ExpectedIdError # "none" =>
        /\ reqs[Main] = <<>>
        /\ th[Main].pc = "idle"
        /\ authHeader = NoToken
        /\ call.state \in {"created", "raised"}
        /\ call.state = "raised" => call.err = ExpectedIdError

\* a delete list whose first item is good and whose second one has no _id
C12_Witness ==
    /\ op.name = "delete" /\ op.item.kind = "list"
    /\ Len(op.item.items) = 2
    /\ HasStrId(op.item.items[1])
    /\ "_id" \notin DOMAIN op.item.items[2]
    /\ call.state = "raised" /\ call.err = "KeyError"
    /\ reqs[Main] = <<>>

\* C13: import_app on a bundle whose config.deployable is false ends with
\* an exception and sends nothing, neither POST /auth nor POST
\* /transfer/app; with deployable true and a boolean data_export it sends
\* one POST /transfer/app whose body holds the entries of the bundle (its
\* config taken out) and delete_mongo_data equal to data_export.
C13_ImportApp ==
    op.name = "import_app" =>
        /\ ~op.item.v["config"]["deployable"] =>
            /\ reqs[Main] = <<>>
            /\ th[Main].pc = "idle"
            /\ call.state \in {"created", "raised"}
            /\ call.state = "raised" => call.err = "Exception"
        /\ (op.item.v["config"]["deployable"]
                /\ op.data_export.type = "bool") =>
            /\ Cardinality(OpReqs) <= 1
            /\ \A i \in OpReqs :
                /\ reqs[Main][i].method = "POST"
                /\ reqs[Main][i].path = "/transfer/app"
                /\ DOMAIN reqs[Main][i].body.data =
                    (DOMAIN op.item.v \ {"config"})
                        \cup {"delete_mongo_data"}
                /\ reqs[Main][i].body.data["delete_mongo_data"] =
                    op.data_export
                /\ \A k \in DOMAIN op.item.v \ {"config"} :
                    reqs[Main][i].body.data[k] = op.item.v[k]
            /\ call.state = "returned" => Cardinality(OpReqs) = 1
            /\ call.state = "raised" => call.err = "HTTPError"

\* the bundle was not deployable and the call failed
C13_Witness ==
    /\ op.name = "import_app"
    /\ ~op.item.v["config"]["deployable"]
    /\ call.state = "raised" /\ call.err = "Exception"
    /\ reqs[Main] = <<>>

\* the bundle was deployable and was posted with delete_mongo_data true
C13_WitnessPost ==
    /\ op.name = "import_app"
    /\ op.data_export = BoolVal("True")
    /\ call.state = "returned"
    /\ Cardinality(OpReqs) = 1

\* the call is get, update or delete on a Collection with an item of kind k
IsCallOn(names, k) ==
    /\ op.name \in names /\ op.resource = "Collection"
    /\ op.item.kind = k

\* the number of elements of a delete list the comprehension has been
\* through when it ends: all of them, or up to the first offending one
Processed(items) ==
    IF FirstBad(items) = 0 THEN Len(items) ELSE FirstBad(items)

\* C17: the identifier is taken out of the caller's own item: once get,
\* update or delete on a collection item has run, the dict passed in holds
\* its other entries and no _id, and so does each dict of a delete list up
\* to the first offending one (the later ones are untouched), whether the
\* call returns, fails with the wrong-type identifier error or fails with
\* an HTTP error; only the record returned by get and update holds the
\* identifier again.
C17_InPlace ==
    /\ (IsCallOn({"get", "update", "delete"}, "dict")
            /\ call.state # "created") =>
        /\ item.kind = "dict"
        /\ item.v = DictPop(op.item.v, "_id")
    /\ (IsCallOn({"get", "update"}, "dict") /\ call.state = "returned") =>
        /\ "_id" \in DOMAIN result.v
        /\ result.v["_id"] = op.item.v["_id"]
    /\ (IsCallOn({"delete"}, "list") /\ call.state # "created") =>
        /\ item.kind = "list"
        /\ Len(item.items) = Len(op.item.items)
        /\ \A i \in 1..Len(op.item.items) :
            item.items[i] =
                IF i <= Processed(op.item.items)
                THEN DictPop(op.item.items[i], "_id")
                ELSE op.item.items[i]
    /\ (op.name = "delete" /\ call.state = "returned") =>
        result.kind = "ApiResponse"

\* a delete list whose second item has an _id that is no string: the call
\* failed and both dicts have lost their _id
C17_Witness ==
    /\ IsCallOn({"delete"}, "list")
    /\ Len(op.item.items) = 2
    /\ HasStrId(op.item.items[1])
    /\ "_id" \in DOMAIN op.item.items[2]
    /\ call.state = "raised" /\ call.err = "TypeError"
    /\ \A i \in 1..2 : "_id" \notin DOMAIN item.items[i]

\* a get that failed with an HTTP error after the item lost its _id
C17_WitnessHttp ==
    /\ IsCallOn({"get"}, "dict")
    /\ HasStrId(op.item.v)
    /\ call.state = "raised" /\ call.err = "HTTPError"
    /\ "_id" \notin DOMAIN item.v

====
